---- MODULE Spec2Model ----
(***************************************************************************)
(* Model of the record bases MModel and PModel of package orm              *)
(* (src/pubsub/publisher.go lines 23-108): the only executable code, the   *)
(* GORM hook MModel.BeforeCreate, and the persistence operations (insert,  *)
(* update, soft delete) as the field tags and field types of the two       *)
(* structs configure them.                                                 *)
(*                                                                         *)
(* The other packages of the repository (app, cache, log, pubsub, bucket)  *)
(* declare Go interfaces and sentinel errors only: they have no method     *)
(* body, so they contribute no state and no transition to this model.      *)
(*                                                                         *)
(* A string is modelled as a sequence of one-character strings, so that    *)
(* its length and its characters are values TLC can compute with.          *)
(***************************************************************************)
EXTENDS Integers, Sequences, FiniteSets, TLC

\* Timestamps are 0..MaxTime; 0 is the zero time.Time.
MaxTime == 2

\* Number of distinct values the random source behind uuid.New() can fill
\* a UUID with.
NumRand == 3

\* The byte values the random source yields.
RandBytes == { (i * 85) % 256 : i \in 0..(NumRand - 1) }

\* Length in bytes of a uuid.UUID ([16]byte).
UUIDLen == 16

\* The digits of encoding/hex, as used by uuid.UUID.String().
HexDigits == << "0", "1", "2", "3", "4", "5", "6", "7",
                "8", "9", "a", "b", "c", "d", "e", "f" >>

\* The two hexadecimal characters of one byte.
EncodeByte(b) == << HexDigits[(b \div 16) + 1], HexDigits[(b % 16) + 1] >>

RECURSIVE EncodeHex(_)
\* hex.Encode of a sequence of bytes.
EncodeHex(bytes) ==
    IF bytes = << >> THEN << >>
    ELSE EncodeByte(Head(bytes)) \o EncodeHex(Tail(bytes))

\* uuid.New(): sixteen random bytes with the version (4) and variant (RFC
\* 4122) bits forced: uuid[6] = (uuid[6] & 0x0f) | 0x40 and
\* uuid[8] = (uuid[8] & 0x3f) | 0x80 (indices from 0).
NewUUID(r) ==
    [ i \in 1..UUIDLen |->
        IF i = 7 THEN (r % 16) + 64
        ELSE IF i = 9 THEN (r % 64) + 128
        ELSE r ]

\* A text form of a UUID that leaves the four dashes out (32 characters).
UUIDStringNoDashes(u) == EncodeHex(u)

\* uuid.UUID.String(): xxxxxxxx-xxxx-xxxx-xxxx-xxxxxxxxxxxx.
UUIDString(u) ==
    EncodeHex(SubSeq(u, 1, 4)) \o << "-" >> \o
    EncodeHex(SubSeq(u, 5, 6)) \o << "-" >> \o
    EncodeHex(SubSeq(u, 7, 8)) \o << "-" >> \o
    EncodeHex(SubSeq(u, 9, 10)) \o << "-" >> \o
    EncodeHex(SubSeq(u, 11, 16))

\* The texts uuid.New().String() can yield, one for each value of the random
\* source.
NewIDs == { UUIDString(NewUUID(r)) : r \in RandBytes }

\* The empty Go string, the zero value of MModel.ID.
EmptyString == << >>

\* Identifiers a caller may have put into the ID field before the hook runs:
\* none, a short application-chosen key, or a UUID text.
CallerIDs ==
    { EmptyString, << "k", "1" >>, UUIDString([ i \in 1..UUIDLen |-> 17 ]) }

\* time.Time values.
Times == 0..MaxTime

\* gorm.DeletedAt (sql.NullTime): Valid = FALSE is NULL, the record is active.
DeletedAts ==
    { [Valid |-> FALSE, Time |-> 0] } \cup
    { [Valid |-> TRUE, Time |-> t] : t \in Times }

\* The timestamps CURRENT_TIMESTAMP / time.Now() can yield: never the zero time.
Nows == Times \ {0}

\* The zero uuid.UUID, the zero value of PModel.ID.
ZeroUUID == [ i \in 1..UUIDLen |-> 0 ]

\* No row of the record is in the table.
Absent == [ variant |-> "none" ]

\* The field-level write permission of a column, read from its gorm tag:
\* "<-:create" allows the column to be written by an insert only; a column
\* without a "<-" setting is written by inserts and by updates.
\* MModel.CreatedAt carries "<-:create" (line 58), PModel.CreatedAt does not
\* (line 94); no other field of either struct carries a "<-" setting.
Updatable(variant, field) ==
    ~ (variant = "M" /\ field = "CreatedAt")

\* The value an insert stores in an auto-timestamp column (CreatedAt,
\* UpdatedAt): the struct's value, or the current time when that is zero.
AutoTime(t, now) == IF t = 0 THEN now ELSE t

VARIABLES
    mModel,   \* the MModel value the hook's receiver points to
    ret,      \* what the last call of BeforeCreate returned: "none" before
              \* any call, "nil" for a nil error
    row       \* the persisted row of the record, Absent before the insert;
              \* variant is "M" for an MModel row, "P" for a PModel row

vars == << mModel, ret, row >>

\* A record as a caller constructs it: any field values, no hook run yet,
\* nothing persisted.
Init ==
    /\ \E id \in CallerIDs, c \in Times, u \in Times, d \in DeletedAts :
         mModel = [ ID |-> id, CreatedAt |-> c, UpdatedAt |-> u,
                    DeletedAt |-> d ]
    /\ ret = "none"
    /\ row = Absent

\* func (mModel *MModel) BeforeCreate(*gorm.DB) error:
\*     mModel.ID = uuid.New().String(); return nil
\* The assignment is unconditional: the previous ID is not read.
BeforeCreate ==
    \E id \in NewIDs :
        /\ mModel' = [ mModel EXCEPT !.ID = id ]
        /\ ret' = "nil"
        /\ UNCHANGED row

\* db.Create(&mModel): the BeforeCreate hook runs, the auto-timestamps that
\* are zero are filled with the current time, and the struct is inserted.
CreateM ==
    /\ row = Absent
    /\ \E id \in NewIDs, now \in Nows :
         /\ mModel' = [ mModel EXCEPT
                          !.ID = id,
                          !.CreatedAt = AutoTime(@, now),
                          !.UpdatedAt = AutoTime(@, now) ]
         /\ ret' = "nil"
         /\ row' = [ variant |-> "M",
                     ID |-> mModel'.ID,
                     CreatedAt |-> mModel'.CreatedAt,
                     UpdatedAt |-> mModel'.UpdatedAt,
                     DeletedAt |-> mModel'.DeletedAt ]

\* db.Create(&pModel) of a PModel the caller built: PModel has no hook; a
\* zero ID is replaced by the column default uuid_generate_v4().
CreateP ==
    /\ row = Absent
    /\ \E id \in { ZeroUUID, [ i \in 1..UUIDLen |-> 17 ] },
          r \in RandBytes, now \in Nows,
          c \in Times, u \in Times, d \in DeletedAts :
         row' = [ variant |-> "P",
                  ID |-> IF id = ZeroUUID THEN NewUUID(r) ELSE id,
                  CreatedAt |-> AutoTime(c, now),
                  UpdatedAt |-> AutoTime(u, now),
                  DeletedAt |-> d ]
    /\ UNCHANGED << mModel, ret >>

\* An update of the persisted record through a value holding its primary key
\* (db.Model(&rec).Select(...).Updates(rec), db.Save(&rec)): the statement
\* carries the value c for CreatedAt when setsCreatedAt, and the column is
\* written only if its tag allows updates; UpdatedAt is refreshed.
\* Soft-deleted rows are not matched (DELETED_AT IS NULL is added).
Update ==
    /\ row # Absent
    /\ ~ row.DeletedAt.Valid
    /\ \E setsCreatedAt \in BOOLEAN, c \in Times, now \in Nows :
         row' = [ row EXCEPT
                    !.CreatedAt =
                        IF setsCreatedAt /\ Updatable(row.variant, "CreatedAt")
                        THEN c ELSE @,
                    !.UpdatedAt = now ]
    /\ UNCHANGED << mModel, ret >>

\* db.Delete(&rec) on a struct with a gorm.DeletedAt field: the row stays and
\* UPDATE ... SET DELETED_AT = now WHERE DELETED_AT IS NULL is issued.
SoftDelete ==
    /\ row # Absent
    /\ ~ row.DeletedAt.Valid
    /\ \E now \in Nows :
         row' = [ row EXCEPT !.DeletedAt = [Valid |-> TRUE, Time |-> now] ]
    /\ UNCHANGED << mModel, ret >>

Next ==
    \/ BeforeCreate
    \/ CreateM
    \/ CreateP
    \/ Update
    \/ SoftDelete

Spec == Init /\ [][Next]_vars

----------------------------------------------------------------------------

\* C1: an identifier once assigned is immutable: when the ID of an MModel is
\* already non-empty (set by the caller or by an earlier BeforeCreate), no
\* step, including another call of BeforeCreate, changes the ID.
C1_IDImmutableOnceAssigned ==
    [][ mModel.ID # EmptyString => mModel'.ID = mModel.ID ]_vars

\* C11: for both record bases created-at is set on insert only: soft-deleting
\* a persisted record sets deleted-at to a non-null time and leaves created-at
\* unmodified, and no update of the record changes created-at either.
C11_CreatedAtSetOnInsertOnly ==
    [][ row # Absent =>
          /\ row'.CreatedAt = row.CreatedAt
          /\ (row'.DeletedAt # row.DeletedAt => row'.DeletedAt.Valid) ]_vars

\* The length of the text identifier column ID, varchar(36).
IDLen == 36

\* C14: MModel.BeforeCreate, for every prior state of the record, returns a
\* nil error, leaves ID set to a non-empty text identifier of 36 characters,
\* and changes nothing but ID: CreatedAt, UpdatedAt and DeletedAt are left
\* unchanged.
C14_BeforeCreateSetsOnlyID ==
    [][ BeforeCreate =>
          /\ ret' = "nil"
          /\ mModel'.ID # EmptyString
          /\ Len(mModel'.ID) = IDLen
          /\ mModel'.CreatedAt = mModel.CreatedAt
          /\ mModel'.UpdatedAt = mModel.UpdatedAt
          /\ mModel'.DeletedAt = mModel.DeletedAt ]_vars

\* BeforeCreate has been called directly (nothing is persisted) on a record
\* that had a creation time, an update time and a deletion time, and returned.
C14_Witness ==
    /\ ret = "nil"
    /\ row = Absent
    /\ Len(mModel.ID) = IDLen
    /\ mModel.CreatedAt # 0
    /\ mModel.UpdatedAt # 0
    /\ mModel.DeletedAt.Valid

====
